---- MODULE Spec2Model ----
(***************************************************************************)
(* Model of main() in                                                      *)
(* python/samples/concepts/agents/openai_responses/                        *)
(*     responses_agent_binary_content_upload.py                            *)
(*                                                                         *)
(* One action per step of the coroutine between two points where it can    *)
(* suspend or raise: resource setup, the temporary-file "with" block, the  *)
(* two BinaryContent.from_file calls, agent and chat-history construction, *)
(* the head of the for loop, one iteration of the "async for" body, the    *)
(* end of a stream, an exception coming out of the stream, the "finally"   *)
(* block and the closing banner.  The remote service and the filesystem    *)
(* are the environment: what they answer is chosen with \E.  os.unlink on  *)
(* the file the run created itself is taken to succeed.                    *)
(***************************************************************************)
EXTENDS Integers, Sequences, FiniteSets, TLC

\* Total number of response fragments the service streams back in one run.
MaxFragments == 3

\* USER_INPUTS, lines 25-30.
USER_INPUTS ==
    << "What type of files did I upload?",
       "Can you tell me about the content in the PDF file?",
       "What does the text file contain?",
       "Summarize all the uploaded documents." >>

\* The prompt lists a run is started with: USER_INPUTS and its prefixes,
\* the empty list included (the loop of line 127 iterates whatever the
\* module-level list holds when main() runs).
InputLists == { SubSeq(USER_INPUTS, 1, n) : n \in 0..Len(USER_INPUTS) }

\* create_sample_text_content(), lines 33-60 (first line of the text).
create_sample_text_content == "Company Policy Document - Remote Work Guidelines"

\* name="FileAnalyzer", line 109.
AGENT_NAME == "FileAnalyzer"

\* Python's None (thread = None, line 125).
None == "None"

\* Thread handles the service can hand back in response.thread.
Handles == {"thread_1", "thread_2"}

\* Texts a streamed fragment can hold in response.content.
Contents == {"a", "b"}

\* One streamed response item: the fields the loop body reads (133-137).
Fragments == [content : Contents, thread : Handles, name : {AGENT_NAME}]

VARIABLES
    inputs,               \* the prompt list iterated at line 127
    pc,                   \* position of main()
    err,                  \* exception in flight / propagated out of main()
    tmp_exists,           \* the temporary file is on disk
    tmp_data,             \* what has been written to it
    text_file_path,       \* line 79
    pdf_binary_content,   \* line 86
    text_binary_content,  \* line 90
    agent,                \* line 101
    chat_history,         \* lines 113-122
    thread,               \* lines 125, 133
    turn,                 \* number of iterations of the for loop entered
    first_chunk,          \* lines 131, 136
    output,               \* what print() has written, in order
    requests,             \* the agent.invoke_stream calls, in order
    received,             \* received[k]: fragments yielded to turn k
    threadStore,          \* service side: messages held by each thread
    cleaned               \* the finally block has run

vars == << inputs, pc, err, tmp_exists, tmp_data, text_file_path,
           pdf_binary_content, text_binary_content, agent, chat_history,
           thread, turn, first_chunk, output, requests, received,
           threadStore, cleaned >>

TMP_PATH == "/tmp/tmpXXXX.txt"
PDF_PATH == "resources/file_search/employees.pdf"

----------------------------------------------------------------------------
\* Helpers

\* print(...): one entry of the console output, tagged with the turn.
Line(kind, t, text) == [kind |-> kind, turn |-> t, text |-> text]

\* BinaryContent.from_file(file_path=..., mime_type=...), lines 86 and 90.
FromFile(path, mime, data) ==
    [kind |-> "binary", mime_type |-> mime, uri |-> path, data |-> data]

\* Value of pdf_binary_content / text_binary_content before assignment.
NoContent == [kind |-> "none", mime_type |-> "", uri |-> "", data |-> ""]

\* TextContent(text=...), line 119.
TextContent(text) ==
    [kind |-> "text", mime_type |-> "text/plain", uri |-> "", data |-> text]

\* A user message: a list of content items (chat_history.add_user_message).
UserMessage(items) == [role |-> "user", items |-> items]

\* The message of lines 118-122 for the two attachments of this run.
AttachmentMessage(pdf, txt) ==
    UserMessage(<< TextContent("I'm uploading a PDF document and a text file for you to analyze."),
                   pdf, txt >>)

\* What the service receives with a call: the prompt passed as messages=
\* and whatever the thread passed as thread= already holds.
Carried(req) ==
    {UserMessage(<< TextContent(req.messages) >>)}
        \cup (IF req.thread = None THEN {} ELSE threadStore[req.thread])

RECURSIVE TotalLen(_)
TotalLen(ss) == IF ss = << >> THEN 0 ELSE Len(Head(ss)) + TotalLen(Tail(ss))

SetLast(s, v) == [s EXCEPT ![Len(s)] = v]

----------------------------------------------------------------------------
Init ==
    /\ inputs \in InputLists
    /\ pc = "start"
    /\ err = None
    /\ tmp_exists = FALSE
    /\ tmp_data = ""
    /\ text_file_path = None
    /\ pdf_binary_content = NoContent
    /\ text_binary_content = NoContent
    /\ agent = None
    /\ chat_history = << >>
    /\ thread = None
    /\ turn = 0
    /\ first_chunk = TRUE
    /\ output = << >>
    /\ requests = << >>
    /\ received = << >>
    /\ threadStore = [h \in Handles |-> {}]
    /\ cleaned = FALSE

\* Line 65: OpenAIResponsesAgent.setup_resources(); lines 68-73.
SetupResources ==
    /\ pc = "start"
    /\ \E ok \in BOOLEAN :
         IF ok THEN pc' = "create" /\ err' = err
               ELSE pc' = "done" /\ err' = "setup"
    /\ UNCHANGED << inputs, tmp_exists, tmp_data, text_file_path,
                    pdf_binary_content, text_binary_content, agent,
                    chat_history, thread, turn, first_chunk, output,
                    requests, received, threadStore, cleaned >>

\* Lines 76-79: the "with tempfile.NamedTemporaryFile(delete=False)" block.
\* It stands before the try of line 81, so an exception raised in it leaves
\* main() without passing through the finally block.
\*   "nofile": NamedTemporaryFile itself raises, nothing is created;
\*   "write" : the file is on disk and text_file.write (or the flush on
\*             close) raises;
\*   "ok"    : the block finishes and text_file_path is set.
CreateTempFile ==
    /\ pc = "create"
    /\ \E outcome \in {"nofile", "write", "ok"} :
         CASE outcome = "nofile" ->
                /\ pc' = "done" /\ err' = "create"
                /\ UNCHANGED << tmp_exists, tmp_data, text_file_path >>
           [] outcome = "write" ->
                /\ tmp_exists' = TRUE
                /\ pc' = "done" /\ err' = "write"
                /\ UNCHANGED << tmp_data, text_file_path >>
           [] outcome = "ok" ->
                /\ tmp_exists' = TRUE
                /\ tmp_data' = create_sample_text_content
                /\ text_file_path' = TMP_PATH
                /\ pc' = "pdf" /\ err' = err
    /\ UNCHANGED << inputs, pdf_binary_content, text_binary_content, agent,
                    chat_history, thread, turn, first_chunk, output,
                    requests, received, threadStore, cleaned >>

\* Variant of LoadPdf: the read failure is noted but the run carries on.
LoadPdf_continues ==
    /\ pc = "pdf"
    /\ \E ok \in BOOLEAN :
         /\ pdf_binary_content' =
                (IF ok THEN FromFile(PDF_PATH, "application/pdf", "%PDF") ELSE NoContent)
         /\ output' = Append(output, Line("info", 0, "Creating BinaryContent from files..."))
         /\ err' = (IF ok THEN err ELSE "file")
         /\ pc' = "text"
    /\ UNCHANGED << inputs, tmp_exists, tmp_data, text_file_path,
                    text_binary_content, agent, chat_history, thread, turn,
                    first_chunk, requests, received, threadStore, cleaned >>

\* Lines 83-87: BinaryContent.from_file on the PDF; a failed read raises
\* inside the try, so control goes to the finally block.
LoadPdf ==
    /\ pc = "pdf"
    /\ \E ok \in BOOLEAN :
         IF ok
         THEN /\ pdf_binary_content' = FromFile(PDF_PATH, "application/pdf", "%PDF")
              /\ output' = output
                     \o << Line("info", 0, "Creating BinaryContent from files..."),
                           Line("info", 0, "Created PDF BinaryContent: application/pdf") >>
              /\ pc' = "text" /\ err' = err
         ELSE /\ output' = Append(output, Line("info", 0, "Creating BinaryContent from files..."))
              /\ pc' = "finally" /\ err' = "file"
              /\ UNCHANGED pdf_binary_content
    /\ UNCHANGED << inputs, tmp_exists, tmp_data, text_file_path,
                    text_binary_content, agent, chat_history, thread, turn,
                    first_chunk, requests, received, threadStore, cleaned >>

\* Lines 90-91: BinaryContent.from_file on the temporary text file.
LoadText ==
    /\ pc = "text"
    /\ \E ok \in BOOLEAN :
         IF ok /\ tmp_exists
         THEN /\ text_binary_content' = FromFile(text_file_path, "text/plain", tmp_data)
              /\ output' = Append(output, Line("info", 0, "Created text BinaryContent: text/plain"))
              /\ pc' = "agent" /\ err' = err
         ELSE /\ pc' = "finally" /\ err' = "file"
              /\ UNCHANGED << text_binary_content, output >>
    /\ UNCHANGED << inputs, tmp_exists, tmp_data, text_file_path,
                    pdf_binary_content, agent, chat_history, thread, turn,
                    first_chunk, requests, received, threadStore, cleaned >>

\* Lines 95-125: the alternative BinaryContent, the agent, the chat history
\* with the attachment message, thread = None.
CreateAgent ==
    /\ pc = "agent"
    /\ \E ok \in BOOLEAN :
         IF ok
         THEN /\ agent' = AGENT_NAME
              /\ chat_history' = Append(chat_history,
                     AttachmentMessage(pdf_binary_content, text_binary_content))
              /\ thread' = None
              /\ output' = Append(output, Line("info", 0, "Alternative text BinaryContent: text/plain"))
              /\ pc' = "loop" /\ err' = err
         ELSE /\ output' = Append(output, Line("info", 0, "Alternative text BinaryContent: text/plain"))
              /\ pc' = "finally" /\ err' = "agent"
              /\ UNCHANGED << agent, chat_history, thread >>
    /\ UNCHANGED << inputs, tmp_exists, tmp_data, text_file_path,
                    pdf_binary_content, text_binary_content, turn,
                    first_chunk, requests, received, threadStore, cleaned >>

\* Variant of LoopExit: the loop stops one prompt early.
LoopExit_early ==
    /\ pc = "loop"
    /\ turn + 1 >= Len(inputs)
    /\ pc' = "finally"
    /\ UNCHANGED << inputs, err, tmp_exists, tmp_data, text_file_path,
                    pdf_binary_content, text_binary_content, agent,
                    chat_history, thread, turn, first_chunk, output,
                    requests, received, threadStore, cleaned >>

\* Line 127, loop exhausted: leave the try block normally.
LoopExit ==
    /\ pc = "loop"
    /\ turn >= Len(inputs)
    /\ pc' = "finally"
    /\ UNCHANGED << inputs, err, tmp_exists, tmp_data, text_file_path,
                    pdf_binary_content, text_binary_content, agent,
                    chat_history, thread, turn, first_chunk, output,
                    requests, received, threadStore, cleaned >>

\* Variant of InvokeStream: the next call is also made while the previous
\* stream is still being consumed.
InvokeStream_overlap ==
    /\ pc \in {"loop", "stream"}
    /\ turn < Len(inputs)
    /\ turn' = turn + 1
    /\ output' = Append(output, Line("user", turn + 1, inputs[turn + 1]))
    /\ first_chunk' = TRUE
    /\ requests' = Append(requests,
           [messages |-> inputs[turn + 1], thread |-> thread, status |-> "open"])
    /\ received' = Append(received, << >>)
    /\ pc' = "stream"
    /\ UNCHANGED << inputs, err, tmp_exists, tmp_data, text_file_path,
                    pdf_binary_content, text_binary_content, agent,
                    chat_history, thread, threadStore, cleaned >>

\* Lines 127-132: next user_input, its banner, first_chunk = True and the
\* call agent.invoke_stream(messages=user_input, thread=thread).
InvokeStream ==
    /\ pc = "loop"
    /\ turn < Len(inputs)
    /\ turn' = turn + 1
    /\ output' = Append(output, Line("user", turn + 1, inputs[turn + 1]))
    /\ first_chunk' = TRUE
    /\ requests' = Append(requests,
           [messages |-> inputs[turn + 1], thread |-> thread, status |-> "open"])
    /\ received' = Append(received, << >>)
    /\ pc' = "stream"
    /\ UNCHANGED << inputs, err, tmp_exists, tmp_data, text_file_path,
                    pdf_binary_content, text_binary_content, agent,
                    chat_history, thread, threadStore, cleaned >>

\* Variant of CaptureThread: the handle is taken from the first chunk only.
CaptureThread_firstOnly(cur, first, response) ==
    IF first THEN response.thread ELSE cur

\* Line 133: thread = response.thread.
CaptureThread(cur, first, response) == response.thread

\* Variant of PrintFragment: the content print sits under "if first_chunk".
PrintFragment_firstOnly(out, first, response, t) ==
    IF first
    THEN out \o << Line("header", t, response.name), Line("content", t, response.content) >>
    ELSE out

\* Lines 134-137: the header on the first chunk, then the content.
PrintFragment(out, first, response, t) ==
    (IF first THEN Append(out, Line("header", t, response.name)) ELSE out)
        \o << Line("content", t, response.content) >>

\* Variant of ClearFirstChunk: the flag is never reset.
ClearFirstChunk_never(first) == first

\* Line 136: first_chunk = False (only assigned under "if first_chunk").
ClearFirstChunk(first) == FALSE

\* Lines 132-137: the stream yields one more response and the body of the
\* async for runs on it.  On the service side the thread named by the
\* response holds the prompt of this call and what the call's thread held.
NextFragment ==
    /\ pc = "stream"
    /\ TotalLen(received) < MaxFragments
    /\ \E response \in Fragments :
         /\ thread' = CaptureThread(thread, first_chunk, response)
         /\ output' = PrintFragment(output, first_chunk, response, turn)
         /\ first_chunk' = ClearFirstChunk(first_chunk)
         /\ received' = SetLast(received, Append(received[Len(received)], response))
         /\ threadStore' = [threadStore EXCEPT ![response.thread] =
                               @ \cup Carried(requests[Len(requests)])]
    /\ UNCHANGED << inputs, pc, err, tmp_exists, tmp_data, text_file_path,
                    pdf_binary_content, text_binary_content, agent,
                    chat_history, turn, requests, cleaned >>

\* Lines 132, 138: the stream is exhausted; print() and back to line 127.
StreamEnd ==
    /\ pc = "stream"
    /\ output' = Append(output, Line("newline", turn, ""))
    /\ requests' = SetLast(requests, [requests[Len(requests)] EXCEPT !.status = "completed"])
    /\ pc' = "loop"
    /\ UNCHANGED << inputs, err, tmp_exists, tmp_data, text_file_path,
                    pdf_binary_content, text_binary_content, agent,
                    chat_history, thread, turn, first_chunk, received,
                    threadStore, cleaned >>

\* Variant of StreamError: the exception is caught and the loop goes on.
StreamError_swallowed ==
    /\ pc = "stream"
    /\ requests' = SetLast(requests, [requests[Len(requests)] EXCEPT !.status = "failed"])
    /\ pc' = "loop"
    /\ UNCHANGED << inputs, err, tmp_exists, tmp_data, text_file_path,
                    pdf_binary_content, text_binary_content, agent,
                    chat_history, thread, turn, first_chunk, output,
                    received, threadStore, cleaned >>

\* Line 132: invoke_stream raises, before the first response or between
\* two responses.  No except clause encloses the loop: control goes to the
\* finally block of line 140 with the exception pending.
StreamError ==
    /\ pc = "stream"
    /\ requests' = SetLast(requests, [requests[Len(requests)] EXCEPT !.status = "failed"])
    /\ err' = "service"
    /\ pc' = "finally"
    /\ UNCHANGED << inputs, tmp_exists, tmp_data, text_file_path,
                    pdf_binary_content, text_binary_content, agent,
                    chat_history, thread, turn, first_chunk, output,
                    received, threadStore, cleaned >>

\* Variant of Cleanup: the existence test is inverted, nothing is unlinked.
Cleanup_keepsFile ==
    /\ pc = "finally"
    /\ cleaned' = TRUE
    /\ pc' = (IF err = None THEN "banner" ELSE "done")
    /\ UNCHANGED << inputs, err, tmp_exists, tmp_data, text_file_path,
                    pdf_binary_content, text_binary_content, agent,
                    chat_history, thread, turn, first_chunk, output,
                    requests, received, threadStore >>

\* Lines 140-143: if os.path.exists(text_file_path): os.unlink(...).
\* Afterwards a pending exception continues out of main(); otherwise the
\* statements after the try run.
Cleanup ==
    /\ pc = "finally"
    /\ tmp_exists' = (IF tmp_exists THEN FALSE ELSE tmp_exists)
    /\ cleaned' = TRUE
    /\ pc' = (IF err = None THEN "banner" ELSE "done")
    /\ UNCHANGED << inputs, err, tmp_data, text_file_path,
                    pdf_binary_content, text_binary_content, agent,
                    chat_history, thread, turn, first_chunk, output,
                    requests, received, threadStore >>

\* Lines 145-155: the closing prints; main() returns.
PrintSummary ==
    /\ pc = "banner"
    /\ output' = Append(output, Line("banner", 0, "Sample completed!"))
    /\ pc' = "done"
    /\ UNCHANGED << inputs, err, tmp_exists, tmp_data, text_file_path,
                    pdf_binary_content, text_binary_content, agent,
                    chat_history, thread, turn, first_chunk, requests,
                    received, threadStore, cleaned >>

Next ==
    \/ SetupResources
    \/ CreateTempFile
    \/ LoadPdf
    \/ LoadText
    \/ CreateAgent
    \/ LoopExit
    \/ InvokeStream
    \/ NextFragment
    \/ StreamEnd
    \/ StreamError
    \/ Cleanup
    \/ PrintSummary

Spec == Init /\ [][Next]_vars

----------------------------------------------------------------------------
\* Properties

Turns == 1..Len(requests)

BannerPrinted == \E i \in 1..Len(output) : output[i].kind = "banner"

\* The entries of the output that belong to turn k, of one kind.
Printed(kind, k) ==
    SelectSeq(output, LAMBDA l : l.kind = kind /\ l.turn = k)

\* Position of the first entry of a kind for turn k (0 when there is none).
FirstIndex(kind, k) ==
    LET S == { i \in 1..Len(output) : output[i].kind = kind /\ output[i].turn = k }
    IN  IF S = {} THEN 0 ELSE CHOOSE i \in S : \A j \in S : i <= j

\* The latest turn before k that received a fragment (0 when there is none).
LastTurnWithFragment(k) ==
    LET S == { i \in 1..(k - 1) : received[i] # << >> }
    IN  IF S = {} THEN 0 ELSE CHOOSE i \in S : \A j \in S : j <= i

\* C1: whenever main() has ended, the temporary file is not on disk (this
\* covers every exit taken after the file was created, the failed write of
\* the sample text included).
C1_NoTempFileAtExit ==
    pc = "done" => ~tmp_exists

\* C2: the temporary file exists from the end of its creation block until
\* the cleanup step, it does not exist once the cleanup step has run, and
\* a run ended by an exception of the conversation loop has run the cleanup.
C2_TempFileLifetime ==
    /\ (text_file_path # None /\ ~cleaned) => tmp_exists
    /\ cleaned => ~tmp_exists
    /\ (pc = "done" /\ \E k \in Turns : requests[k].status = "failed")
          => (cleaned /\ ~tmp_exists)

\* C2 witness: the stream of the second turn raised after a fragment, the
\* cleanup has run and the file is gone.
C2_Witness ==
    /\ pc = "done" /\ err = "service" /\ cleaned /\ ~tmp_exists
    /\ Len(requests) = 2 /\ Len(received[2]) >= 1

\* C3: every invoke_stream request carries, in its messages or through its
\* thread, the chat-history message holding the two attachments.
C3_RequestsCarryAttachments ==
    \A k \in Turns :
        /\ chat_history # << >>
        /\ \A i \in 1..Len(chat_history) : chat_history[i] \in Carried(requests[k])

\* C4: for every turn the contents printed are exactly the contents of the
\* fragments received in that turn, in arrival order, and nothing of a
\* turn is printed after output of a later turn.
C4_PrintedEqualsReceived ==
    /\ \A k \in Turns :
          /\ Len(Printed("content", k)) = Len(received[k])
          /\ \A i \in 1..Len(received[k]) :
                Printed("content", k)[i].text = received[k][i].content
    /\ \A i, j \in 1..Len(output) :
          (i < j /\ output[i].turn > 0 /\ output[j].turn > 0)
              => output[i].turn <= output[j].turn

\* C4 witness: a turn printed two different fragments and a later turn
\* printed one.
C4_Witness ==
    /\ Len(received) >= 2
    /\ Len(received[1]) = 2
    /\ received[1][1].content # received[1][2].content
    /\ Len(received[2]) >= 1
    /\ Len(Printed("content", 2)) >= 1

\* C5: at most one invoke_stream request is open at any time, it is the
\* latest one, every earlier one was consumed to the end of its stream, and
\* the prompts are issued in the order of the prompt list.
C5_OneTurnAtATime ==
    /\ Cardinality({ k \in Turns : requests[k].status = "open" }) <= 1
    /\ \A k \in Turns : k < Len(requests) => requests[k].status = "completed"
    /\ Len(requests) <= Len(inputs)
    /\ \A k \in Turns : requests[k].messages = inputs[k]

\* C5 witness: the second request is open after the first stream, which
\* yielded fragments, was consumed.
C5_Witness ==
    /\ Len(requests) = 2
    /\ requests[2].status = "open"
    /\ requests[1].status = "completed"
    /\ Len(received[1]) >= 1

\* C6: the first turn is invoked with thread None; a later turn is invoked
\* with the handle of the most recent fragment received in earlier turns.
C6_ThreadPassedOn ==
    \A k \in Turns :
        /\ k = 1 => requests[k].thread = None
        /\ (k > 1 /\ LastTurnWithFragment(k) # 0) =>
              LET r == received[LastTurnWithFragment(k)]
              IN  requests[k].thread = r[Len(r)].thread

\* C6 witness: the first turn received two fragments with different
\* handles and a second turn has been invoked.
C6_Witness ==
    /\ Len(requests) >= 2
    /\ Len(received[1]) = 2
    /\ received[1][1].thread # received[1][2].thread
    /\ requests[2].thread = received[1][2].thread

\* C7: a request whose stream raised is the last request of the run: its
\* prompt is not submitted again, no later prompt is invoked, the completion
\* banner is not printed, and main() ends with the service error.
C7_ServiceErrorPropagates ==
    \A k \in Turns :
        requests[k].status = "failed" =>
            /\ k = Len(requests)
            /\ \A j \in Turns : j # k => requests[j].messages # requests[k].messages
            /\ ~BannerPrinted
            /\ pc \in {"finally", "done"}
            /\ err = "service"

\* C7 witness: main() has ended on a service error raised between two
\* fragments while prompts were still left.
C7_Witness ==
    /\ pc = "done" /\ err = "service"
    /\ Len(requests) >= 1 /\ Len(requests) < Len(inputs)
    /\ requests[Len(requests)].status = "failed"
    /\ Len(received[Len(requests)]) >= 1

\* C8: after a failed BinaryContent.from_file the run only cleans up and
\* ends with that error: no agent is constructed, no request is sent.
C8_FileErrorFatal ==
    err = "file" =>
        /\ pc \in {"finally", "done"}
        /\ agent = None
        /\ requests = << >>
        /\ ~BannerPrinted

\* C8 witness: main() has ended on the failed read of the temporary text
\* file, after the PDF was read.
C8_Witness ==
    /\ pc = "done" /\ err = "file"
    /\ pdf_binary_content # NoContent
    /\ text_binary_content = NoContent

\* C9: a run that ends without error has made as many invoke_stream calls
\* as there are prompts; with an empty prompt list no call is ever made.
C9_CallsEqualPrompts ==
    /\ (pc = "done" /\ err = None) => Len(requests) = Len(inputs)
    /\ inputs = << >> => requests = << >>

\* C9 witness: a run with the empty prompt list has completed.
C9_Witness ==
    /\ pc = "done" /\ err = None /\ BannerPrinted
    /\ inputs = << >>
    /\ requests = << >>

\* C10: a turn that received a fragment has printed the header exactly
\* once and before the first content; a turn that received none has printed
\* no header and, while it is the current turn, the stored thread is the
\* one the turn was invoked with.
C10_HeaderOncePerTurn ==
    /\ \A k \in Turns :
          IF received[k] = << >>
          THEN Len(Printed("header", k)) = 0
          ELSE /\ Len(Printed("header", k)) = 1
               /\ FirstIndex("header", k) < FirstIndex("content", k)
    /\ (turn >= 1 /\ Len(received) = turn /\ received[turn] = << >>)
          => thread = requests[turn].thread

\* C10 witness: one completed turn printed two fragments, the next
\* completed turn received none.
C10_Witness ==
    /\ Len(requests) >= 2
    /\ requests[1].status = "completed" /\ Len(received[1]) = 2
    /\ requests[2].status = "completed" /\ received[2] = << >>
    /\ Len(Printed("header", 1)) = 1
    /\ thread = received[1][2].thread

====
